---- MODULE Spec2Model ----
(***************************************************************************)
(* Star-schema materialization of star_schema.ipynb: the dimension spec    *)
(* registry, the dimension materialization loop, the fact schema build,    *)
(* the key resolver and the fact loader, run as notebook cells against a   *)
(* PostgreSQL store through Spark's JDBC writer/reader and psycopg2.       *)
(*                                                                         *)
(* Values.  Every natural-key value is a string; an integer-typed value is *)
(* its canonical decimal numeral ("1"), a double-typed value its numeral   *)
(* with a fraction ("1.0", "1.5"), the column's type being carried by the  *)
(* schema.  NULL is SQL NULL.  Surrogate keys are integers, NULL_ID is SQL *)
(* NULL in a key column.                                                   *)
(***************************************************************************)
EXTENDS Integers, Sequences, FiniteSets, TLC

\* ---------------------------------------------------------------- bounds
\* rows of the source dataset
MaxRows == 2
\* number of surrogate key values a run can hand out
MaxId == 2
\* runs of the fact load cell
MaxLoads == 2
\* length of the flag-column list given to the registry
MaxFlags == 3

NULL == "NULL"
NULL_ID == -1
IdSet == 0 .. (MaxId - 1)

\* -------------------------------------------------------------- variables
VARIABLES
    data,        \* the source dataset (DataFrame data), a sequence of rows
    dimTable,    \* store: name of an existing dimension table -> [rows, pk]
    factTable,   \* store: [exists, rows, fks, serial]
    facts_data,  \* the notebook's DataFrame facts_data: [defined, joined]
    pc,          \* "idle", or the step of the materialization loop to run next
    dimIdx,      \* the loop's position in DIMENSION_TABLES_CONFIG (0 when idle)
    out,         \* the exception the last finished cell ended with: [cell, err, table]
    loads,       \* completed runs of the load cell
    INTEGER_DIMENSIONS,       \* the flag columns given to the registry cell
    DIMENSION_TABLES_CONFIG   \* the registry; <<>> until the registry cell ran

vars == << data, dimTable, factTable, facts_data, pc, dimIdx, out, loads,
           INTEGER_DIMENSIONS, DIMENSION_TABLES_CONFIG >>
storeVars == << dimTable, factTable >>
registryVars == << INTEGER_DIMENSIONS, DIMENSION_TABLES_CONFIG >>

\* ------------------------------------------------------- sequence helpers
Range(s) == { s[i] : i \in 1 .. Len(s) }

RECURSIVE SeqsUpTo(_, _)
SeqsUpTo(S, n) ==
    IF n = 0 THEN { <<>> }
    ELSE LET shorter == SeqsUpTo(S, n - 1)
         IN  shorter \cup { Append(s, x) : s \in { t \in shorter : Len(t) = n - 1 }, x \in S }

\* ------------------------------------------------------------- registry
\* A dict is a sequence of [name, fields] items in insertion order.
DictKeys(d) == [ i \in 1 .. Len(d) |-> d[i].name ]

\* d[k] = v : an existing key keeps its position and takes the new value,
\* a new key is appended.
DictSet(d, item) ==
    IF \E i \in 1 .. Len(d) : d[i].name = item.name
    THEN [ i \in 1 .. Len(d) |-> IF d[i].name = item.name THEN item ELSE d[i] ]
    ELSE Append(d, item)

RECURSIVE DictUpdate(_, _)
DictUpdate(d, items) ==
    IF items = <<>> THEN d
    ELSE DictUpdate(DictSet(d, Head(items)), Tail(items))

\* str.upper() on the column names of the model
Upper(s) ==
    CASE s = "local"          -> "LOCAL"
      [] s = "tp_dependencia" -> "TP_DEPENDENCIA"
      [] OTHER                -> s

\* the item the comprehension builds for one flag column
FlagDimension(dimension) ==
    [ name   |-> "DIM_" \o Upper(dimension),
      fields |-> << [ field |-> dimension, type |-> "integer" ] >> ]

\* the dict comprehension over INTEGER_DIMENSIONS
FlagDimensions(flags) ==
    DictUpdate(<<>>, [ i \in 1 .. Len(flags) |-> FlagDimension(flags[i]) ])

\* the hand-written part of DIMENSION_TABLES_CONFIG (two of its five fields)
HAND_WRITTEN_CONFIG ==
    << [ name   |-> "DIM_LOCAL",
         fields |-> << [ field |-> "NO_UF",        type |-> "string" ],
                       [ field |-> "NO_MUNICIPIO", type |-> "string" ] >> ] >>

\* DIMENSION_TABLES_CONFIG.update({...})
MergedConfig(base, flags) == DictUpdate(base, FlagDimensions(flags))

\* the flag columns of the pipeline (one of the eleven)
PIPELINE_FLAGS == << "TP_DEPENDENCIA" >>
\* the flag columns the registry cell is tried on
FLAG_COLUMNS == { "TP_DEPENDENCIA", "tp_dependencia", "local", "IN_INTERNET" }

NumDims == Len(DIMENSION_TABLES_CONFIG)
DimNames == Range(DictKeys(DIMENSION_TABLES_CONFIG))
ConfigOf(table_name) ==
    CHOOSE c \in Range(DIMENSION_TABLES_CONFIG) : c.name = table_name

FACT_TABLE_NAME == "FACT_CENSO_ESCOLAR"
\* the measures (one of the fifteen)
FACT_COLUMNS == << "QT_DOC_BAS" >>

\* DIMENSION_ID_CONFIG: table name -> natural-key field names
DIMENSION_ID_CONFIG ==
    [ i \in 1 .. NumDims |->
        [ name   |-> DIMENSION_TABLES_CONFIG[i].name,
          fields |-> [ j \in 1 .. Len(DIMENSION_TABLES_CONFIG[i].fields) |->
                         DIMENSION_TABLES_CONFIG[i].fields[j].field ] ] ]

\* ------------------------------------------------------------------ casts
\* Spark's cast to integer: the numeral's value, a fraction cut off; NULL
\* when the text is no numeral.
ParseInt(v) ==
    CASE v = "1"   -> "1"
      [] v = "01"  -> "1"
      [] v = "2"   -> "2"
      [] v = "1.0" -> "1"
      [] v = "1.5" -> "1"
      [] OTHER     -> NULL

\* Spark's cast to double
ParseDouble(v) ==
    CASE v = "1"   -> "1.0"
      [] v = "01"  -> "1.0"
      [] v = "2"   -> "2.0"
      [] v = "1.0" -> "1.0"
      [] v = "1.5" -> "1.5"
      [] OTHER     -> NULL

\* Column.cast(type)
Cast(from, to, v) ==
    IF v = NULL THEN NULL
    ELSE IF from = to THEN v
    ELSE IF to = "integer" THEN ParseInt(v)
    ELSE IF to = "double" THEN ParseDouble(v)
    ELSE v

\* ------------------------------------------------------------ the dataset
\* option("inferSchema", "true"): a column of integer numerals is an integer
\* column, a column of numerals a double column, any other a string column.
IsInteger(v) == v \in { "1", "01", "2" }
IsDouble(v) == IsInteger(v) \/ v \in { "1.0", "1.5" }
InferType(values) ==
    LET given == values \ { NULL }
    IN  IF given = {} THEN "string"
        ELSE IF \A v \in given : IsInteger(v) THEN "integer"
        ELSE IF \A v \in given : IsDouble(v) THEN "double"
        ELSE "string"

\* The type of a natural-key column of data: the type the CSV reader
\* inferred, which the Parquet file keeps.  Inferring it from the typed
\* values gives the same type again.
SourceType(field) == InferType({ data[i][field] : i \in 1 .. Len(data) })

\* the tokens of the CSV file
UF_VALUES == << "Acre", "Bahia" >>
MUNICIPIO_VALUES == << "Rio Branco", NULL >>
DEPENDENCIA_VALUES == << "1", "01", "x", "1.5" >>
MEASURE_VALUES == << 100, 50 >>

SourceRows ==
    [ NO_UF : Range(UF_VALUES), NO_MUNICIPIO : Range(MUNICIPIO_VALUES),
      TP_DEPENDENCIA : Range(DEPENDENCIA_VALUES), QT_DOC_BAS : Range(MEASURE_VALUES) ]

\* A DataFrame is a bag of rows: a dataset is listed in one fixed order of
\* its rows.
IndexOf(s, v) == CHOOSE i \in 1 .. Len(s) : s[i] = v
RowRank(r) ==
    ((IndexOf(UF_VALUES, r.NO_UF) * Len(MUNICIPIO_VALUES)
        + IndexOf(MUNICIPIO_VALUES, r.NO_MUNICIPIO)) * Len(DEPENDENCIA_VALUES)
        + IndexOf(DEPENDENCIA_VALUES, r.TP_DEPENDENCIA)) * Len(MEASURE_VALUES)
        + IndexOf(MEASURE_VALUES, r.QT_DOC_BAS)
CsvFiles ==
    { df \in SeqsUpTo(SourceRows, MaxRows) :
        \A i \in 1 .. Len(df) - 1 : RowRank(df[i]) <= RowRank(df[i + 1]) }

\* the CSV rows read with the inferred schema: the flag column's tokens as
\* values of the inferred type
ReadCsv(csv) ==
    LET type == InferType({ csv[i].TP_DEPENDENCIA : i \in 1 .. Len(csv) })
    IN  [ i \in 1 .. Len(csv) |->
            [ csv[i] EXCEPT !.TP_DEPENDENCIA = Cast("string", type, @) ] ]

Datasets == { ReadCsv(csv) : csv \in CsvFiles }

\* ------------------------------------------------- dimension materializer
\* the projection without the cast
SelectUncast(df, fields) ==
    [ i \in 1 .. Len(df) |-> [ j \in 1 .. Len(fields) |-> df[i][fields[j].field] ] ]

\* data.select([F.col(f).cast(t).alias(f) for f in fields]): one key tuple
\* per dataset row.
SelectCast(df, fields) ==
    [ i \in 1 .. Len(df) |->
        [ j \in 1 .. Len(fields) |->
            Cast(SourceType(fields[j].field), fields[j].type, df[i][fields[j].field]) ] ]

\* a distinct under which NULL equals nothing: a row holding a NULL is never
\* a duplicate
RECURSIVE DistinctNullsDiffer(_)
DistinctNullsDiffer(rows) ==
    IF rows = <<>> THEN <<>>
    ELSE LET init == DistinctNullsDiffer(SubSeq(rows, 1, Len(rows) - 1))
             last == rows[Len(rows)]
         IN  IF last \in Range(init) /\ NULL \notin Range(last) THEN init
             ELSE Append(init, last)

\* .distinct(): the first occurrence of every row; NULL equals NULL here.
RECURSIVE Distinct(_)
Distinct(rows) ==
    IF rows = <<>> THEN <<>>
    ELSE LET init == Distinct(SubSeq(rows, 1, Len(rows) - 1))
             last == rows[Len(rows)]
         IN  IF last \in Range(init) THEN init ELSE Append(init, last)

\* a row number that restarts in every partition: keys can repeat
RowNumberIds(n) == [ 1 .. n -> IdSet ]

\* F.monotonically_increasing_id(): the assignments of keys to n rows it can
\* make; unique, neither contiguous nor the same from run to run.
MonotonicallyIncreasingIds(n) ==
    { ids \in [ 1 .. n -> IdSet ] : \A i, j \in 1 .. n : i # j => ids[i] # ids[j] }

\* .withColumn("id", ...)
WithColumnId(rows, ids) ==
    [ i \in 1 .. Len(rows) |-> [ id |-> ids[i], key |-> rows[i] ] ]

\* the exception a cell ended with, and the table it names
Report(cell, err, table) == [ cell |-> cell, err |-> err, table |-> table ]
Finished == Report("", "none", "")

NoTables == [ t \in {} |-> {} ]
NoFactTable == [ exists |-> FALSE, rows |-> <<>>, fks |-> {}, serial |-> FALSE ]

TableExists(table_name, dims) == table_name \in DOMAIN dims
Ids(table) == { table.rows[i].id : i \in 1 .. Len(table.rows) }

\* --------------------------------------------------------------- the store
\* DataFrameWriter.jdbc(table, mode="overwrite"): DROP TABLE, CREATE TABLE,
\* INSERT.  PostgreSQL refuses the DROP while a foreign key of the fact
\* table references the table.
DropRefused(table_name, dims, ft) ==
    TableExists(table_name, dims) /\ table_name \in ft.fks

JdbcOverwrite(table_name, rows, dims) ==
    (table_name :> [ rows |-> rows, pk |-> FALSE ]) @@ dims

\* ALTER TABLE t ADD PRIMARY KEY (id)
PrimaryKeyError(table_name, dims) ==
    IF ~TableExists(table_name, dims) THEN "UndefinedTable"
    ELSE LET table == dims[table_name]
         IN  IF table.pk THEN "InvalidTableDefinition"
             ELSE IF \E i, j \in 1 .. Len(table.rows) :
                         i # j /\ table.rows[i].id = table.rows[j].id
                  THEN "UniqueViolation"
             ELSE IF \E i \in 1 .. Len(table.rows) : table.rows[i].id = NULL_ID
                  THEN "NotNullViolation"
             ELSE "none"

\* CREATE TABLE IF NOT EXISTS FACT_CENSO_ESCOLAR (id SERIAL PRIMARY KEY, ...)
CreateTableIfNotExists(ft) ==
    IF ft.exists THEN ft
    ELSE [ exists |-> TRUE, rows |-> <<>>, fks |-> {}, serial |-> TRUE ]

\* ADD CONSTRAINT <fact>_<dim>_fk FOREIGN KEY (ID_<dim>) REFERENCES <dim>(id)
ForeignKeyError(ft, dim_table, dims) ==
    IF ~TableExists(dim_table, dims) THEN "UndefinedTable"
    ELSE IF ~dims[dim_table].pk THEN "InvalidForeignKey"
    ELSE IF dim_table \in ft.fks THEN "DuplicateObject"
    ELSE IF \E i \in 1 .. Len(ft.rows) :
                /\ ft.rows[i].fk[dim_table] # NULL_ID
                /\ ft.rows[i].fk[dim_table] \notin Ids(dims[dim_table])
         THEN "ForeignKeyViolation"
    ELSE "none"

\* the ALTER TABLE statement: the first dimension whose constraint fails, 0
\* when none does
FirstFailing(ft, dims) ==
    LET bad == { i \in 1 .. NumDims :
                   ForeignKeyError(ft, DIMENSION_ID_CONFIG[i].name, dims) # "none" }
    IN  IF bad = {} THEN 0 ELSE CHOOSE i \in bad : \A j \in bad : i <= j

AddForeignKeys(ft) == [ ft EXCEPT !.fks = DimNames ]

\* a commit where the rollback should be: the statements that ran stay
KeepPartial(before, partial) == partial

\* conn.rollback(): the store is as it was before the transaction's statements
Rollback(before, partial) == before

\* ------------------------------------------------------------ key resolver
\* the type Spark compares two columns in: a string side takes the other
\* side's type, an integer side a double side's
CommonType(l, r) ==
    IF l = r THEN l
    ELSE IF l = "string" THEN r
    ELSE IF r = "string" THEN l
    ELSE "double"

\* a null-safe join condition (<=>): NULL equals NULL
JoinEqNullSafe(field, a, b) ==
    LET common == CommonType(SourceType(field.field), field.type)
    IN  Cast(SourceType(field.field), common, a) = Cast(field.type, common, b)

\* The join condition of .join(dim_table, on=table_fields): equality column
\* by column of the source column as it is and the dimension table's column,
\* both sides coerced to their common type; NULL equals nothing.
JoinEq(field, a, b) ==
    LET common == CommonType(SourceType(field.field), field.type)
        l == Cast(SourceType(field.field), common, a)
        r == Cast(field.type, common, b)
    IN  l # NULL /\ r # NULL /\ l = r

\* the rows of the dimension table that a fact row joins with
Matches(src, cfg, table) ==
    LET On(r) == \A j \in 1 .. Len(cfg.fields) :
                    JoinEq(cfg.fields[j], src[cfg.fields[j].field], r.key[j])
    IN  SelectSeq(table.rows, On)

\* an inner join: a row without a match is dropped
UnmatchedDropped(r, table_name) == <<>>

\* how="left": a row without a match is kept, with NULL in the key column
Unmatched(r, table_name) == << [ r EXCEPT !.fk = (table_name :> NULL_ID) @@ @ ] >>

\* facts_data.join(dim_table, on=table_fields, how="left")
RECURSIVE LeftJoin(_, _, _)
LeftJoin(rows, cfg, table) ==
    IF rows = <<>> THEN <<>>
    ELSE LET r == Head(rows)
             m == Matches(r.src, cfg, table)
             joined == IF m = <<>> THEN Unmatched(r, cfg.name)
                       ELSE [ k \in 1 .. Len(m) |->
                                [ r EXCEPT !.fk = (cfg.name :> m[k].id) @@ @ ] ]
         IN  joined \o LeftJoin(Tail(rows), cfg, table)

\* facts_data = data.select(natural-key columns, measures)
SelectFactsData(df) == [ i \in 1 .. Len(df) |-> [ src |-> df[i], fk |-> NoTables ] ]

\* The joins of the plan facts_data stands for, run against the store as it
\* is when the plan is executed (Spark reads a JDBC relation when an action
\* runs the plan).
RECURSIVE JoinAll(_, _, _)
JoinAll(rows, names, dims) ==
    IF names = <<>> THEN rows
    ELSE JoinAll(LeftJoin(rows, ConfigOf(Head(names)), dims[Head(names)]),
                 Tail(names), dims)

Collect(plan, df, dims) == JoinAll(SelectFactsData(df), plan.joined, dims)

\* the resolver's loop: every dimension in order, up to the first that raises
RECURSIVE ResolveLoop(_, _, _)
ResolveLoop(joined, i, dims) ==
    IF i > NumDims THEN [ joined |-> joined, err |-> "none", table |-> "" ]
    ELSE LET table_name == DIMENSION_ID_CONFIG[i].name
         IN  IF ~TableExists(table_name, dims)
             THEN [ joined |-> joined, err |-> "UndefinedTable", table |-> table_name ]
             ELSE IF table_name \in Range(joined)
             THEN [ joined |-> joined, err |-> "AnalysisException", table |-> table_name ]
             ELSE ResolveLoop(Append(joined, table_name), i + 1, dims)

\* ------------------------------------------------------ fact schema text
\* the column definitions of CREATE TABLE after "id SERIAL PRIMARY KEY":
\* f"{field} INTEGER" per measure, then f"ID_{dim_table} BIGINT" per key of
\* DIMENSION_ID_CONFIG
CreateTableColumns ==
    [ c \in 1 .. Len(FACT_COLUMNS) |-> [ name |-> FACT_COLUMNS[c], type |-> "INTEGER" ] ]
    \o [ i \in 1 .. NumDims |->
            [ name |-> "ID_" \o DIMENSION_ID_CONFIG[i].name, type |-> "BIGINT" ] ]

\* the ADD CONSTRAINT clauses of the ALTER TABLE statement, one per key of
\* DIMENSION_ID_CONFIG
AddConstraintClauses ==
    [ i \in 1 .. NumDims |->
        LET dim_table == DIMENSION_ID_CONFIG[i].name
        IN  [ name       |-> FACT_TABLE_NAME \o "_" \o dim_table \o "_fk",
              column     |-> "ID_" \o dim_table,
              references |-> dim_table,
              refcolumn  |-> "id" ] ]

\* -------------------------------------------------------------- fact loader
\* the key columns ahead of the measures
KeysBeforeMeasures ==
    [ i \in 1 .. NumDims |-> "ID_" \o DIMENSION_ID_CONFIG[i].name ] \o FACT_COLUMNS

\* FACT_COLUMNS + ["ID_" + table for table in DIMENSION_ID_CONFIG]
FACT_TABLE_ALL_COLUMNS_ORDERED ==
    FACT_COLUMNS \o [ i \in 1 .. NumDims |-> "ID_" \o DIMENSION_ID_CONFIG[i].name ]

\* .select(*FACT_TABLE_ALL_COLUMNS_ORDERED)
SelectOrdered(rows) ==
    [ i \in 1 .. Len(rows) |->
        [ m  |-> [ c \in 1 .. Len(FACT_COLUMNS) |-> rows[i].src[FACT_COLUMNS[c]] ],
          fk |-> rows[i].fk ] ]

\* key columns declared NOT NULL: a NULL key is refused as well
ViolatesForeignKeyOrNull(row, ft, dims) ==
    \E d \in ft.fks : row.fk[d] \notin Ids(dims[d])

\* a row the store's foreign keys refuse
ViolatesForeignKey(row, ft, dims) ==
    \E d \in ft.fks : row.fk[d] # NULL_ID /\ row.fk[d] \notin Ids(dims[d])

\* mode="overwrite" on the fact table: the rows of the run replace the table
JdbcReplace(ft, rows) ==
    [ exists |-> TRUE, rows |-> rows, fks |-> {}, serial |-> FALSE ]

\* DataFrameWriter.jdbc(table, mode="append"): the table is created from the
\* DataFrame's columns when it does not exist, then the rows are inserted.
JdbcAppend(ft, rows) ==
    IF ft.exists THEN [ ft EXCEPT !.rows = @ \o rows ]
    ELSE [ exists |-> TRUE, rows |-> rows, fks |-> {}, serial |-> FALSE ]

\* ------------------------------------------------------------------ cells
Defined == DIMENSION_TABLES_CONFIG # <<>>

\* Registry cell: INTEGER_DIMENSIONS, DIMENSION_TABLES_CONFIG = {...},
\* DIMENSION_TABLES_CONFIG.update({...}).  Nothing in it raises.
BuildRegistry ==
    /\ pc = "idle"
    /\ DIMENSION_TABLES_CONFIG' = MergedConfig(HAND_WRITTEN_CONFIG, INTEGER_DIMENSIONS)
    /\ out' = Finished
    /\ UNCHANGED << data, storeVars, facts_data, pc, dimIdx, loads, INTEGER_DIMENSIONS >>

\* Materialization loop, first half of an iteration: select, cast, distinct,
\* id, write with mode="overwrite".  The first iteration starts the cell.  An
\* exception ends the cell.
WriteDimension ==
    /\ Defined
    /\ pc \in { "idle", "write" }
    /\ LET i    == IF pc = "idle" THEN 1 ELSE dimIdx
           cfg  == DIMENSION_TABLES_CONFIG[i]
           rows == Distinct(SelectCast(data, cfg.fields))
       IN  IF DropRefused(cfg.name, dimTable, factTable)
           THEN /\ pc' = "idle"
                /\ dimIdx' = 0
                /\ out' = Report("dimensions", "DependentObjectsStillExist", cfg.name)
                /\ UNCHANGED dimTable
           ELSE \E ids \in MonotonicallyIncreasingIds(Len(rows)) :
                /\ dimTable' = JdbcOverwrite(cfg.name, WithColumnId(rows, ids), dimTable)
                /\ pc' = "pk"
                /\ dimIdx' = i
                /\ UNCHANGED out
    /\ UNCHANGED << data, factTable, facts_data, loads, registryVars >>

\* an iteration that goes on to the next dimension without the ALTER TABLE
SkipPrimaryKey ==
    /\ pc = "pk"
    /\ IF dimIdx < NumDims
       THEN pc' = "write" /\ dimIdx' = dimIdx + 1 /\ UNCHANGED out
       ELSE pc' = "idle" /\ dimIdx' = 0 /\ out' = Finished
    /\ UNCHANGED << data, storeVars, facts_data, loads, registryVars >>

\* Materialization loop, second half of an iteration: ALTER TABLE ... ADD
\* PRIMARY KEY (id), commit.  The statement is not guarded: an exception ends
\* the cell.
AddPrimaryKey ==
    /\ pc = "pk"
    /\ LET table_name == DIMENSION_TABLES_CONFIG[dimIdx].name
           err        == PrimaryKeyError(table_name, dimTable)
       IN  IF err # "none"
           THEN /\ pc' = "idle"
                /\ dimIdx' = 0
                /\ out' = Report("dimensions", err, table_name)
                /\ UNCHANGED dimTable
           ELSE /\ dimTable' = [ dimTable EXCEPT ![table_name].pk = TRUE ]
                /\ IF dimIdx < NumDims
                   THEN pc' = "write" /\ dimIdx' = dimIdx + 1 /\ UNCHANGED out
                   ELSE pc' = "idle" /\ dimIdx' = 0
                        /\ out' = Finished
    /\ UNCHANGED << data, factTable, facts_data, loads, registryVars >>

\* Schema cell: cursor.execute(facts_table_sql) in one transaction; commit,
\* or print the exception and roll back.
BuildSchema ==
    /\ Defined
    /\ pc = "idle"
    /\ LET created == CreateTableIfNotExists(factTable)
           failing == FirstFailing(created, dimTable)
       IN  IF failing # 0
           THEN /\ factTable' = Rollback(factTable, created)
                /\ out' = Report("schema",
                                 ForeignKeyError(created, DIMENSION_ID_CONFIG[failing].name, dimTable),
                                 DIMENSION_ID_CONFIG[failing].name)
           ELSE /\ factTable' = AddForeignKeys(created)
                /\ out' = Finished
    /\ UNCHANGED << data, dimTable, facts_data, pc, dimIdx, loads, registryVars >>

\* Extract cell: facts_data = data.select(...)
SelectFacts ==
    /\ Defined
    /\ pc = "idle"
    /\ facts_data' = [ defined |-> TRUE, joined |-> <<>> ]
    /\ out' = Finished
    /\ UNCHANGED << data, storeVars, pc, dimIdx, loads, registryVars >>

\* Resolver cell: the join loop over DIMENSION_ID_CONFIG
ResolveKeys ==
    /\ Defined
    /\ pc = "idle"
    /\ facts_data.defined
    /\ LET res == ResolveLoop(facts_data.joined, 1, dimTable)
       IN  /\ facts_data' = [ facts_data EXCEPT !.joined = res.joined ]
           /\ out' = IF res.err = "none" THEN Finished
                     ELSE Report("resolve", res.err, res.table)
    /\ UNCHANGED << data, storeVars, pc, dimIdx, loads, registryVars >>

\* Load cell: select the ordered columns, write with mode="append"
LoadFacts ==
    /\ Defined
    /\ pc = "idle"
    /\ facts_data.defined
    /\ loads < MaxLoads
    /\ IF Range(facts_data.joined) # DimNames
       THEN /\ out' = Report("load", "AnalysisException", "")
            /\ UNCHANGED << factTable, loads >>
       ELSE LET rows == SelectOrdered(Collect(facts_data, data, dimTable))
            IN  IF \E i \in 1 .. Len(rows) : ViolatesForeignKey(rows[i], factTable, dimTable)
                THEN /\ out' = Report("load", "ForeignKeyViolation", "")
                     /\ UNCHANGED << factTable, loads >>
                ELSE /\ factTable' = JdbcAppend(factTable, rows)
                     /\ loads' = loads + 1
                     /\ out' = Finished
    /\ UNCHANGED << data, dimTable, facts_data, pc, dimIdx, registryVars >>

\* ---------------------------------------------------------- specifications
\* a fresh kernel and an empty database
InitNotebook ==
    /\ dimTable = NoTables
    /\ factTable = NoFactTable
    /\ facts_data = [ defined |-> FALSE, joined |-> <<>> ]
    /\ pc = "idle"
    /\ dimIdx = 0
    /\ out = Finished
    /\ loads = 0
    /\ DIMENSION_TABLES_CONFIG = <<>>

Init ==
    /\ data \in Datasets
    /\ INTEGER_DIMENSIONS = PIPELINE_FLAGS
    /\ InitNotebook

Next ==
    \/ BuildRegistry
    \/ WriteDimension
    \/ AddPrimaryKey
    \/ BuildSchema
    \/ SelectFacts
    \/ ResolveKeys
    \/ LoadFacts

Spec == Init /\ [][Next]_vars

\* The registry cell alone, on every list of flag columns.
InitRegistry ==
    /\ data = <<>>
    /\ INTEGER_DIMENSIONS \in SeqsUpTo(FLAG_COLUMNS, MaxFlags)
    /\ InitNotebook

NextRegistry == BuildRegistry

SpecRegistry == InitRegistry /\ [][NextRegistry]_vars

\* The notebook connected to a database that already holds the dimension
\* tables, written by another client: DIM_TP_DEPENDENCIA lists one natural key
\* under two surrogate keys.
EXISTING_TABLES ==
    ("DIM_LOCAL" :>
        [ rows |-> << [ id |-> 0, key |-> << "Acre", "Rio Branco" >> ] >>, pk |-> TRUE ])
    @@ ("DIM_TP_DEPENDENCIA" :>
        [ rows |-> << [ id |-> 0, key |-> << "1" >> ], [ id |-> 1, key |-> << "1" >> ] >>,
          pk   |-> TRUE ])

InitExistingStore ==
    /\ data \in Datasets
    /\ INTEGER_DIMENSIONS = PIPELINE_FLAGS
    /\ dimTable = EXISTING_TABLES
    /\ factTable = NoFactTable
    /\ facts_data = [ defined |-> FALSE, joined |-> <<>> ]
    /\ pc = "idle"
    /\ dimIdx = 0
    /\ out = Finished
    /\ loads = 0
    /\ DIMENSION_TABLES_CONFIG = <<>>

SpecExistingStore == InitExistingStore /\ [][Next]_vars

\* ------------------------------------------------------------- properties
Resolved == facts_data.defined /\ Defined /\ Range(facts_data.joined) = DimNames

\* the natural-key tuple of a dataset row for a dimension, in the declared types
CastKey(row, cfg) ==
    [ j \in 1 .. Len(cfg.fields) |->
        Cast(SourceType(cfg.fields[j].field), cfg.fields[j].type, row[cfg.fields[j].field]) ]

\* no row of the dimension table joins with the dataset row
NoMatch(row, cfg, table) ==
    \A k \in 1 .. Len(table.rows) :
        \E j \in 1 .. Len(cfg.fields) :
            \/ CastKey(row, cfg)[j] = NULL
            \/ table.rows[k].key[j] = NULL
            \/ CastKey(row, cfg)[j] # table.rows[k].key[j]

\* C1: key resolution preserves the rows: whatever the dataset and the
\* materialized dimension tables, the joins of the plan yield exactly one row
\* per dataset row, in particular as many rows as the dataset has.
C1_RowCountPreserved ==
    (facts_data.defined /\ Defined) =>
        LET resolved == Collect(facts_data, data, dimTable)
        IN  /\ Len(resolved) = Len(data)
            /\ \A i \in 1 .. Len(data) : resolved[i].src = data[i]

\* C1 witness: the plan joins every dimension, the dataset has rows, and every
\* row carries a natural key absent from DIM_TP_DEPENDENCIA (its key is NULL).
C1_Witness ==
    /\ Resolved
    /\ Len(data) = MaxRows
    /\ LET resolved == Collect(facts_data, data, dimTable)
       IN  \A i \in 1 .. Len(resolved) : resolved[i].fk["DIM_TP_DEPENDENCIA"] = NULL_ID

\* C2: referential integrity: every foreign-key value of every fact row is NULL
\* or the surrogate key of a row now in the dimension table.
C2_ReferentialIntegrity ==
    \A i \in 1 .. Len(factTable.rows) :
        \A d \in DOMAIN factTable.rows[i].fk :
            \/ factTable.rows[i].fk[d] = NULL_ID
            \/ /\ TableExists(d, dimTable)
               /\ factTable.rows[i].fk[d] \in Ids(dimTable[d])

\* C3: dedup invariant: no dimension table holds two rows that agree on all
\* declared fields, NULL counting as a value.
C3_NoDuplicateRows ==
    \A d \in DOMAIN dimTable :
        \A i, j \in 1 .. Len(dimTable[d].rows) :
            i # j => dimTable[d].rows[i].key # dimTable[d].rows[j].key

\* C3 witness: two dataset rows with the same DIM_LOCAL key holding a NULL,
\* and DIM_LOCAL materialized with the one row.
C3_Witness ==
    /\ Len(data) = 2
    /\ data[1].NO_MUNICIPIO = NULL /\ data[2].NO_MUNICIPIO = NULL
    /\ data[1].NO_UF = data[2].NO_UF
    /\ TableExists("DIM_LOCAL", dimTable)
    /\ Len(dimTable["DIM_LOCAL"].rows) = 1

\* C4: surrogate keys: in every dimension table no two rows have the same id
\* and no id is NULL.
C4_SurrogateKeysUnique ==
    \A d \in DOMAIN dimTable :
        /\ \A i, j \in 1 .. Len(dimTable[d].rows) :
              i # j => dimTable[d].rows[i].id # dimTable[d].rows[j].id
        /\ \A i \in 1 .. Len(dimTable[d].rows) : dimTable[d].rows[i].id \in IdSet

\* C4 witness: both dimension tables written with two rows each, the second
\* one before its primary key is added.
C4_Witness ==
    /\ pc = "pk"
    /\ \A d \in DimNames : TableExists(d, dimTable) /\ Len(dimTable[d].rows) = 2

\* C5: round trip: the set of natural-key tuples in a dimension table is the
\* set of the dataset's tuples projected on the declared fields and cast to
\* the declared types.
C5_KeyRoundTrip ==
    \A d \in DOMAIN dimTable :
        { dimTable[d].rows[i].key : i \in 1 .. Len(dimTable[d].rows) }
            = { CastKey(data[i], ConfigOf(d)) : i \in 1 .. Len(data) }

\* C5 witness: DIM_TP_DEPENDENCIA built from a dataset whose values the cast
\* changes ("01" becomes 1, "x" becomes NULL).
C5_Witness ==
    /\ TableExists("DIM_TP_DEPENDENCIA", dimTable)
    /\ Len(data) = 2
    /\ data[1].TP_DEPENDENCIA = "01"
    /\ data[2].TP_DEPENDENCIA = "x"
    /\ Len(dimTable["DIM_TP_DEPENDENCIA"].rows) = 2

\* C6: correct key resolution: with the plan joining every dimension, a dataset
\* row whose natural-key combination (in the declared types) is in a dimension
\* table resolves to the surrogate key of the row holding it, and keeps its
\* measures.
C6_ResolvesToMatchingKey ==
    Resolved =>
        LET resolved == Collect(facts_data, data, dimTable)
        IN  \A i \in 1 .. Len(data) :
                /\ resolved[i].src.QT_DOC_BAS = data[i].QT_DOC_BAS
                /\ \A d \in DimNames :
                      \A k \in 1 .. Len(dimTable[d].rows) :
                          dimTable[d].rows[k].key = CastKey(data[i], ConfigOf(d))
                              => resolved[i].fk[d] = dimTable[d].rows[k].id

\* C7: an unmatched natural key is no error: a run of the load cell on a plan
\* joining every dimension completes, appends one row per dataset row with its
\* measures, and a row that joins with no row of a dimension table has NULL in
\* that dimension's key column.
C7_UnmatchedKeyLoadsAsNull ==
    [][ (LoadFacts /\ Resolved) =>
            /\ out'.err = "none"
            /\ Len(factTable'.rows) = Len(factTable.rows) + Len(data)
            /\ \A i \in 1 .. Len(data) :
                  LET row == factTable'.rows[Len(factTable.rows) + i]
                  IN  /\ row.m = << data[i].QT_DOC_BAS >>
                      /\ \A d \in DimNames :
                            NoMatch(data[i], ConfigOf(d), dimTable[d])
                                => row.fk[d] = NULL_ID ]_vars

\* C7 witness: the fact table, built with its foreign keys, holds a loaded row
\* whose key for DIM_TP_DEPENDENCIA is NULL.
C7_Witness ==
    /\ factTable.fks = DimNames /\ Defined
    /\ \E i \in 1 .. Len(factTable.rows) :
          factTable.rows[i].fk["DIM_TP_DEPENDENCIA"] = NULL_ID

\* some statement of the schema build fails against the store as it is
SchemaStatementFails ==
    \E d \in DimNames :
        ForeignKeyError(CreateTableIfNotExists(factTable), d, dimTable) # "none"

\* C8: the schema build is idempotent: run against a store whose fact schema is
\* built, it raises no error and leaves the schema unchanged.
C8_SchemaBuildIdempotent ==
    [][ (BuildSchema /\ factTable.exists /\ factTable.fks = DimNames) =>
            (out'.err = "none" /\ factTable' = factTable) ]_vars

\* C9: the schema build is atomic: when a statement of it fails, the store is
\* what it was before the cell ran and the failure is reported with the table
\* of the constraint that failed.
C9_SchemaBuildAtomic ==
    [][ (BuildSchema /\ SchemaStatementFails) =>
            /\ factTable' = factTable
            /\ dimTable' = dimTable
            /\ out'.cell = "schema" /\ out'.err # "none"
            /\ out'.table \in DimNames ]_vars

\* C9 witness: the schema build failed on an absent dimension table and the
\* fact table its CREATE TABLE made does not exist.
C9_Witness ==
    /\ out.cell = "schema"
    /\ out.err = "UndefinedTable"
    /\ ~factTable.exists

\* a synthesized name is the name of a hand-written spec
Collides ==
    \E i \in 1 .. Len(INTEGER_DIMENSIONS) :
        ("DIM_" \o Upper(INTEGER_DIMENSIONS[i])) \in Range(DictKeys(HAND_WRITTEN_CONFIG))

\* C10: the registry merge rejects a name collision: it ends with an error and
\* the hand-written spec is still the one registered under its name.
C10_CollisionRejected ==
    (Defined /\ Collides) =>
        /\ out.err # "none"
        /\ \A i \in 1 .. Len(HAND_WRITTEN_CONFIG) :
              HAND_WRITTEN_CONFIG[i] \in Range(DIMENSION_TABLES_CONFIG)

\* C11: column alignment: the ordered columns handed to the loader are the
\* columns CREATE TABLE declares after the surrogate key, namely the measures
\* in FACT_COLUMNS order and then ID_<table> per dimension in registry order;
\* and ALTER TABLE adds exactly one foreign key per dimension, named
\* <fact>_<table>_fk, on that column, referencing the dimension's id.
C11_ColumnsAligned ==
    Defined =>
        /\ FACT_TABLE_ALL_COLUMNS_ORDERED
              = [ i \in 1 .. Len(CreateTableColumns) |-> CreateTableColumns[i].name ]
        /\ Len(FACT_TABLE_ALL_COLUMNS_ORDERED) = Len(FACT_COLUMNS) + NumDims
        /\ \A c \in 1 .. Len(FACT_COLUMNS) : FACT_TABLE_ALL_COLUMNS_ORDERED[c] = FACT_COLUMNS[c]
        /\ \A i \in 1 .. NumDims :
              FACT_TABLE_ALL_COLUMNS_ORDERED[Len(FACT_COLUMNS) + i]
                  = "ID_" \o DIMENSION_TABLES_CONFIG[i].name
        /\ Len(AddConstraintClauses) = Cardinality(DimNames)
        /\ \A d \in DimNames :
              \E i \in 1 .. Len(AddConstraintClauses) :
                  /\ AddConstraintClauses[i]
                        = [ name       |-> FACT_TABLE_NAME \o "_" \o d \o "_fk",
                            column     |-> "ID_" \o d,
                            references |-> d,
                            refcolumn  |-> "id" ]
                  /\ \A j \in 1 .. Len(AddConstraintClauses) :
                        AddConstraintClauses[j].references = d => j = i

\* C11 witness: a registry of three dimensions built from three flag columns,
\* two of the synthesized or hand-written names being the same.
C11_Witness ==
    /\ Defined
    /\ NumDims = 3
    /\ Len(INTEGER_DIMENSIONS) = 3

\* the fact schema is built: the table of CREATE TABLE with every foreign key
SchemaBuilt == factTable.exists /\ factTable.serial /\ factTable.fks = DimNames

\* C12: schema before load: a run of the load cell appends rows only to a
\* fact table whose schema build has completed and committed.
C12_SchemaBeforeLoad ==
    [][ (LoadFacts /\ Len(factTable'.rows) > Len(factTable.rows)) => SchemaBuilt ]_vars

\* the step of the materialization loop that is next raises
DimensionStepFails ==
    /\ Defined
    /\ \/ /\ pc \in { "idle", "write" }
          /\ DropRefused(DIMENSION_TABLES_CONFIG[IF pc = "idle" THEN 1 ELSE dimIdx].name,
                         dimTable, factTable)
       \/ /\ pc = "pk"
          /\ PrimaryKeyError(DIMENSION_TABLES_CONFIG[dimIdx].name, dimTable) # "none"

\* C13: failure isolation between dimensions: when the write or the primary
\* key step of one dimension fails, the error is reported with the table's
\* name, the tables in the store stay as they are, and the loop goes on with
\* the next dimension.
C13_FailureIsolated ==
    [][ ((WriteDimension \/ AddPrimaryKey) /\ DimensionStepFails) =>
            LET i == IF pc = "idle" THEN 1 ELSE dimIdx
            IN  /\ out'.err # "none"
                /\ out'.table = DIMENSION_TABLES_CONFIG[i].name
                /\ dimTable' = dimTable
                /\ i < NumDims => (pc' = "write" /\ dimIdx' = i + 1) ]_vars

FactCount(m) == Cardinality({ i \in 1 .. Len(factTable.rows) : factTable.rows[i].m = m })
DataCount(m) ==
    Cardinality({ i \in 1 .. Len(data) :
                    [ c \in 1 .. Len(FACT_COLUMNS) |-> data[i][FACT_COLUMNS[c]] ] = m })

\* C15: the fact load appends without deduplication: a complete load run keeps
\* the rows already in the fact table, in place, and adds one row per resolved
\* row; after n complete runs on a dataset of m rows the table holds n*m rows
\* and every measure tuple n times as often as the dataset has it.
C15_AppendWithoutDedup ==
    /\ [] /\ Len(factTable.rows) = loads * Len(data)
          /\ \A v \in Range(MEASURE_VALUES) : FactCount(<< v >>) = loads * DataCount(<< v >>)
    /\ [][ (LoadFacts /\ loads' = loads + 1) =>
              /\ SubSeq(factTable'.rows, 1, Len(factTable.rows)) = factTable.rows
              /\ Len(factTable'.rows)
                    = Len(factTable.rows) + Len(Collect(facts_data, data, dimTable)) ]_vars

\* C15 witness: two complete load runs of a dataset of two rows with the same
\* measure: four fact rows.
C15_Witness ==
    /\ loads = 2
    /\ Len(data) = 2
    /\ data[1].QT_DOC_BAS = data[2].QT_DOC_BAS
    /\ Len(factTable.rows) = 4

\* C16: the resolver compares natural keys in the declared types: with the
\* plan joining every dimension, a dataset row whose natural-key values, cast
\* to the declared types, are all non-null and equal to the stored values of a
\* dimension row resolves to that row's surrogate key.
C16_JoinUsesCastRepresentation ==
    Resolved =>
        LET resolved == Collect(facts_data, data, dimTable)
        IN  \A i \in 1 .. Len(data) :
                \A d \in DimNames :
                    \A k \in 1 .. Len(dimTable[d].rows) :
                        ( /\ NULL \notin Range(CastKey(data[i], ConfigOf(d)))
                          /\ dimTable[d].rows[k].key = CastKey(data[i], ConfigOf(d)) )
                            => resolved[i].fk[d] = dimTable[d].rows[k].id

\* the natural-key tuples of a table, in row order
Keys(table) == [ k \in 1 .. Len(table.rows) |-> table.rows[k].key ]

\* C17: overwrite semantics: every run of a dimension's write, a rerun after
\* the fact schema was built included, is carried out and leaves in the table
\* exactly the deduplicated cast projection of the dataset.
C17_OverwriteSemantics ==
    [][ WriteDimension =>
            LET cfg == DIMENSION_TABLES_CONFIG[IF pc = "idle" THEN 1 ELSE dimIdx]
            IN  /\ pc' = "pk"
                /\ TableExists(cfg.name, dimTable')
                /\ Keys(dimTable'[cfg.name]) = Distinct(SelectCast(data, cfg.fields)) ]_vars

\* C18: stage ordering: the resolver joins a dimension table only when the
\* materialization loop is not running and the table's write has completed;
\* the rows a load run appends carry keys of the tables as they are in the
\* store at that time; the primary key step runs on the table just written,
\* and the loop writes the next dimension only after it.
C18_StageOrdering ==
    [][ /\ ResolveKeys =>
              /\ pc = "idle"
              /\ \A d \in Range(facts_data'.joined) : TableExists(d, dimTable)
        /\ (LoadFacts /\ loads' = loads + 1) =>
              \A i \in Len(factTable.rows) + 1 .. Len(factTable'.rows) :
                  \A d \in DimNames :
                      \/ factTable'.rows[i].fk[d] = NULL_ID
                      \/ factTable'.rows[i].fk[d] \in Ids(dimTable[d])
        /\ AddPrimaryKey =>
              LET cfg == DIMENSION_TABLES_CONFIG[dimIdx]
              IN  /\ TableExists(cfg.name, dimTable)
                  /\ ~dimTable[cfg.name].pk
                  /\ Keys(dimTable[cfg.name]) = Distinct(SelectCast(data, cfg.fields))
        /\ (WriteDimension /\ pc = "write") =>
              /\ dimIdx > 1
              /\ dimTable[DIMENSION_TABLES_CONFIG[dimIdx - 1].name].pk ]_vars

\* C18 witness: the loop rerun after the resolver built its plan, the first
\* dimension rewritten and given its primary key, the second one's write next.
C18_Witness ==
    /\ Resolved
    /\ pc = "write"
    /\ dimIdx = 2
    /\ dimTable["DIM_LOCAL"].pk

\* C19: null natural keys never resolve: with the plan joining every
\* dimension, a dataset row with a NULL among its natural-key values for a
\* dimension (in the declared types) has NULL as that dimension's key, although
\* the dimension table holds a row with exactly that combination, and no
\* resolved row carries that dimension row's surrogate key.
C19_NullKeysNeverResolve ==
    Resolved =>
        LET resolved == Collect(facts_data, data, dimTable)
        IN  \A i \in 1 .. Len(data) :
                \A d \in DimNames :
                    NULL \in Range(CastKey(data[i], ConfigOf(d))) =>
                        /\ resolved[i].fk[d] = NULL_ID
                        /\ \E k \in 1 .. Len(dimTable[d].rows) :
                              /\ dimTable[d].rows[k].key = CastKey(data[i], ConfigOf(d))
                              /\ \A j \in 1 .. Len(resolved) :
                                    resolved[j].fk[d] # dimTable[d].rows[k].id

\* C19 witness: the plan joins every dimension; one dataset row has a NULL
\* city, another one resolves to a row of DIM_LOCAL.
C19_Witness ==
    /\ Resolved
    /\ Len(data) = 2
    /\ \E i \in 1 .. Len(data) : data[i].NO_MUNICIPIO = NULL
    /\ LET resolved == Collect(facts_data, data, dimTable)
       IN  \E j \in 1 .. Len(resolved) : resolved[j].fk["DIM_LOCAL"] # NULL_ID

====
